---- MODULE Spec2Model ----
(***************************************************************************)
(* Model of the process-wide leveled logger of src/index.ts (class Logger). *)
(*                                                                          *)
(* The four static fields of Logger are the program state.  A static field  *)
(* that was never assigned holds the JavaScript value undefined, so a field *)
(* is a tagged value: undefined, NaN or a number.  Every public method is   *)
(* one action.  The lines an action hands to console.info, console.error,   *)
(* console.warn and console.debug are recorded in `out`, the exception it   *)
(* ends with (if any) in `thrown`.  Time is the value of Date.now() in      *)
(* milliseconds, counted from an arbitrary origin.                          *)
(*                                                                          *)
(* src/index.ts is a module (it has import and export), so the usual builds *)
(* run it as strict code, in which the read of arguments.callee in          *)
(* stackTrace throws a TypeError; a build that emits sloppy code lets       *)
(* stackTrace return.  Which build runs is fixed when the class is loaded   *)
(* and is a choice of the initial state.                                    *)
(***************************************************************************)
EXTENDS Integers, Sequences, FiniteSets

VARIABLES
    strictMode,     \* the build runs src/index.ts as strict code
    _errors,        \* Logger._errors        (src/index.ts:63)
    _warnings,      \* Logger._warnings      (src/index.ts:64)
    _startTime,     \* Logger._startTime     (src/index.ts:65), getTime() in ms
    _loggingLevel,  \* Logger._loggingLevel  (src/index.ts:66)
    now,            \* the value Date.now() returns
    out,            \* lines the last step wrote, in order
    thrown,         \* exception the last step ended with, "none" if it returned
    lastCall,       \* history: the last step and its arguments
    errorCalls,     \* history: calls of error since the most recent init
    warnCalls       \* history: calls of warn since the most recent init

vars == <<strictMode, _errors, _warnings, _startTime, _loggingLevel, now, out, thrown,
          lastCall, errorCalls, warnCalls>>

fields == <<_errors, _warnings, _startTime, _loggingLevel>>

-----------------------------------------------------------------------------
(* Bounds of the model *)

\* error and warn are called at most MaxCalls times between two inits
MaxCalls == 2

\* the clock ranges over the half-hour marks 0 .. MaxHalfHours, and over the
\* millisecond before each odd one (where the rounded hour changes)
MaxHalfHours == 4

-----------------------------------------------------------------------------
(* enum LoggingLevel *)

ERROR == 0
WARN == 1
INFO == 2
DEBUG == 3
VERBOSE == 4

LoggingLevel == {ERROR, WARN, INFO, DEBUG, VERBOSE}

-----------------------------------------------------------------------------
(* JavaScript values *)

Undefined == [t |-> "undefined", v |-> 0, s |-> <<>>]
NaN == [t |-> "NaN", v |-> 0, s |-> <<>>]
Num(n) == [t |-> "number", v |-> n, s |-> <<>>]
\* a string is the sequence of its characters
Str(chars) == [t |-> "string", v |-> 0, s |-> chars]

\* x >= n for a number n: undefined converts to NaN, and NaN >= n is false
GreaterEq(x, n) == x.t = "number" /\ x.v >= n

\* x++ : ToNumber(undefined) is NaN, NaN + 1 is NaN
PostIncrement(x) == IF x.t = "number" THEN Num(x.v + 1) ELSE NaN

\* truthiness of a number-or-undefined value: 0, NaN and undefined are falsy
Truthy(x) == x.t = "number" /\ x.v # 0

\* Math.abs on integers
MathAbs(x) == IF x < 0 THEN -x ELSE x

\* variant: the quotient is truncated instead of rounded
MathRoundDiv_floor(n, d) == n \div d

\* Math.round (n / d) for d > 0: the nearest integer, a half rounds towards
\* plus infinity, i.e. floor (n/d + 1/2)
MathRoundDiv(n, d) == (2 * n + d) \div (2 * d)

\* milliseconds per hour, the divisor 36e5
HourMs == 3600000

-----------------------------------------------------------------------------
(* String.prototype.toUpperCase.  A character is a one-character string; a  *)
(* character outside ASCII is written as its code point.                    *)

LowerCase == <<"a","b","c","d","e","f","g","h","i","j","k","l","m",
               "n","o","p","q","r","s","t","u","v","w","x","y","z">>
UpperCase == <<"A","B","C","D","E","F","G","H","I","J","K","L","M",
               "N","O","P","Q","R","S","T","U","V","W","X","Y","Z">>

\* the characters strings are made of here: the ASCII letters, a digit, a
\* space and a hyphen; every character outside a-z whose upper case consists
\* of ASCII letters (U+00DF, U+0131, U+017F, U+FB00 .. U+FB06); and, for the
\* characters whose upper case has a character outside ASCII, the pairs
\* U+00E0/U+00C0, U+00E8/U+00C8, U+00E9/U+00C9, U+00FF/U+0178, the three
\* U+00B5, U+03BC, U+039C, and U+01F0 with the combining U+030C
Alphabet ==
    { LowerCase[k] : k \in 1..26 } \cup { UpperCase[k] : k \in 1..26 } \cup
    { "4", " ", "-" } \cup
    { "U+00DF", "U+0131", "U+017F", "U+FB00", "U+FB01", "U+FB02", "U+FB03",
      "U+FB04", "U+FB05", "U+FB06" } \cup
    { "U+00E0", "U+00C0", "U+00E8", "U+00C8", "U+00E9", "U+00C9", "U+00FF",
      "U+0178", "U+00B5", "U+03BC", "U+039C", "U+01F0", "U+030C" }

\* the upper case of each character of the alphabet, as the characters it
\* becomes (one character may become two or three)
toUpperTable ==
    [ c \in Alphabet |->
        IF \E k \in 1..26 : LowerCase[k] = c
        THEN << UpperCase[CHOOSE k \in 1..26 : LowerCase[k] = c] >>
        ELSE CASE c = "U+00DF" -> <<"S", "S">>
               [] c = "U+0131" -> <<"I">>
               [] c = "U+017F" -> <<"S">>
               [] c = "U+FB00" -> <<"F", "F">>
               [] c = "U+FB01" -> <<"F", "I">>
               [] c = "U+FB02" -> <<"F", "L">>
               [] c = "U+FB03" -> <<"F", "F", "I">>
               [] c = "U+FB04" -> <<"F", "F", "L">>
               [] c = "U+FB05" -> <<"S", "T">>
               [] c = "U+FB06" -> <<"S", "T">>
               [] c = "U+00E0" -> <<"U+00C0">>
               [] c = "U+00E8" -> <<"U+00C8">>
               [] c = "U+00E9" -> <<"U+00C9">>
               [] c = "U+00FF" -> <<"U+0178">>
               [] c = "U+00B5" -> <<"U+039C">>
               [] c = "U+03BC" -> <<"U+039C">>
               [] c = "U+01F0" -> <<"J", "U+030C">>
               [] OTHER -> <<c>> ]

\* defined on the alphabet only
toUpperChar(c) == toUpperTable[c]

RECURSIVE UpperFrom(_, _)
UpperFrom(chars, i) ==
    IF i > Len(chars) THEN <<>>
    ELSE toUpperChar(chars[i]) \o UpperFrom(chars, i + 1)

\* variant: the argument is compared as it is written
toUpperCase_asWritten(chars) == chars

toUpperCase(chars) == UpperFrom(chars, 1)

\* the switch of init over loggingLevel.toUpperCase ()
LevelOfString(chars) ==
    LET up == toUpperCase(chars) IN
    CASE up = <<"E","R","R","O","R">> -> ERROR
      [] up = <<"W","A","R","N">> -> WARN
      [] up = <<"I","N","F","O">> -> INFO
      [] up = <<"D","E","B","U","G">> -> DEBUG
      [] up = <<"V","E","R","B","O","S","E">> -> VERBOSE
      [] OTHER -> INFO

\* the level init stores for its first argument
LevelOfArgument(loggingLevel) ==
    IF loggingLevel.t = "string" THEN LevelOfString(loggingLevel.s)
    ELSE IF Truthy(loggingLevel) THEN loggingLevel.v
    ELSE INFO

-----------------------------------------------------------------------------
(* Inputs *)

\* a stack frame: getLineNumber () and getFileName (), the path as segments
Frames == { [line |-> 10, file |-> <<"srv", "app.js">>],
            [line |-> 42, file |-> <<"srv", "lib", "db.js">>] }

\* the frame of a builtin or of eval code: getFileName () gives no string
BuiltinFrame == [line |-> 0, file |-> <<>>]

\* the frame of the Logger method that called stackTrace ()
LoggerFrame(sourceLine) == [line |-> sourceLine, file |-> <<"src", "index.ts">>]

\* the frames above the Logger method: its caller, or none when
\* Error.stackTraceLimit cuts the stack after one frame
CallerArgs == { <<f>> : f \in Frames \cup {BuiltinFrame} } \cup { <<>> }

\* an ordinary caller only
OneCaller == { << [line |-> 10, file |-> <<"srv", "app.js">>] >> }

Messages == {"msg"}

\* an optional string argument: <<>> when the caller leaves it out
NoArg == <<>>
IpArgs == {NoArg, <<"10.0.0.1">>, <<"">>}
UsernameArgs == {NoArg, <<"alice">>, <<"">>}

ExitCodes == {0, 1}
ProductNames == {"app"}
ProductVersions == {"1.0"}

\* every spelling of a level name in upper and lower case letters
toLowerChar(c) ==
    IF \E k \in 1..26 : UpperCase[k] = c
    THEN LowerCase[CHOOSE k \in 1..26 : UpperCase[k] = c]
    ELSE c

Spellings(name) ==
    { [i \in 1..Len(name) |-> IF up[i] THEN name[i] ELSE toLowerChar(name[i])] :
        up \in [1..Len(name) -> BOOLEAN] }

LevelNames == { <<"E","R","R","O","R">>, <<"W","A","R","N">>, <<"I","N","F","O">>,
                <<"D","E","B","U","G">>, <<"V","E","R","B","O","S","E">> }

OtherStrings == { <<>>,
                  <<"b","o","g","u","s","-","l","e","v","e","l">>,
                  <<"I","N","F">>,
                  <<"w","a","r","n","i","n","g">>,
                  <<" ","d","e","b","u","g">>,
                  <<"e","r","r","o","r"," ">>,
                  <<"4">>,
                  <<"t","r","a","c","e">>,
                  <<"v","e","r","b","o","U+017F","e">>,
                  <<"V","E","R","B","O","U+017F","E">>,
                  <<"U+0131","n","f","o">>,
                  <<"w","U+0131","r","n">>,
                  <<"d","U+00E9","b","u","g">>,
                  <<"v","e","r","b","o","U+00DF","e">>,
                  <<"U+00DF">>,
                  <<"i","n","U+FB01","o">>,
                  <<"w","a","U+FB05","n">>,
                  <<"v","U+00E8","r","b","o","s","e">>,
                  <<"U+00E0">>,
                  <<"U+00B5">>,
                  <<"d","e","b","u","U+01F0">>,
                  <<"U+00FF","U+FB03","U+FB06">> }

\* a few strings, for the runs in which every method is called
SomeStrings == { <<"v","e","r","b","o","s","e">>, <<"E","R","R","O","R">>,
                 <<"W","a","R","n">>, <<"d","e","b","u","g">>,
                 <<"b","o","g","u","s","-","l","e","v","e","l">> }

\* every string init is tried with
AllStrings == (UNION { Spellings(n) : n \in LevelNames }) \cup OtherStrings

\* first argument of init: the enum value, or nothing at all
EnumArgs == { Num(l) : l \in LoggingLevel } \cup {Undefined}

SomeLevelArgs == EnumArgs \cup { Str(s) : s \in SomeStrings }
AllLevelArgs == EnumArgs \cup { Str(s) : s \in AllStrings }

\* values of Date.now (): the half-hour marks and the millisecond before
\* each odd one
ClockValues ==
    { h * (HourMs \div 2) : h \in 0..MaxHalfHours } \cup
    { h * (HourMs \div 2) - 1 : h \in { k \in 0..MaxHalfHours : k % 2 = 1 } }

\* two values of Date.now ()
SomeClockValues == {0, HourMs \div 2}

-----------------------------------------------------------------------------
(* Lines *)

\* path.basename of a path given as its segments
basename(file) == file[Len(file)]

\* stackTrace (), where it returns: the frames above stackTrace itself, the
\* calling Logger method first, then the frames above that method
stackTrace(self, callers) == <<self>> \o callers

\* stackTrace ()[1] in the source's zero-based indexing
CallerOf(stack) == stack[2]

\* the expression `${stackTrace ()[1].getLineNumber ()}@${path.basename
\* (stackTrace ()[1].getFileName ())}` throws a TypeError: in strict code at
\* arguments.callee; with no frame above the method at the property read of
\* undefined; with a frame without file name in path.basename
CallSiteThrows(self, callers) ==
    \/ strictMode
    \/ Len(stackTrace(self, callers)) < 2
    \/ CallerOf(stackTrace(self, callers)).file = <<>>

NoToken == [mode |-> "none", line |-> 0, file |-> "", user |-> "", ip |-> ""]

\* ${stackTrace ()[1].getLineNumber ()}@${path.basename(stackTrace ()[1].getFileName ())}
CallSiteToken(self, callers) ==
    [mode |-> "callsite",
     line |-> CallerOf(stackTrace(self, callers)).line,
     file |-> basename(CallerOf(stackTrace(self, callers)).file),
     user |-> "", ip |-> ""]

\* ${username ? username : "Unauthenticated"}@${ip}; a left-out username is
\* null and the empty string is falsy as well
IdentityToken(username, ip) ==
    [mode |-> "identity", line |-> 0, file |-> "",
     user |-> IF username # NoArg /\ username[1] # "" THEN username[1]
              ELSE "Unauthenticated",
     ip |-> ip[1]]

\* the text of a line: a tag, the time printed in ISO form (-1 if none),
\* the token before the colon, the message, a number, a second string
Text(tag, time, token, msg, num, extra) ==
    [tag |-> tag, time |-> time, token |-> token, msg |-> msg, num |-> num,
     extra |-> extra]

Plain(tag) == Text(tag, -1, NoToken, "", 0, "")

\* `TAG: ${new Date(Date.now ()).toISOString()} - <token>: ${message}`
MessageText(tag, token, message) == Text(tag, now, token, message, 0, "")

consoleInfo(text) == [sink |-> "console.info", text |-> text]
consoleError(text) == [sink |-> "console.error", text |-> text]
consoleWarn(text) == [sink |-> "console.warn", text |-> text]

\* variant: debug output is written with console.info
consoleDebug_asInfo(text) == [sink |-> "console.info", text |-> text]

consoleDebug(text) == [sink |-> "console.debug", text |-> text]

-----------------------------------------------------------------------------
(* History of the last step *)

NoCall ==
    [op |-> "none", level |-> Undefined, callers |-> <<>>, ip |-> NoArg,
     username |-> NoArg, code |-> 0, at |-> 0,
     prior |-> <<Undefined, Undefined, Undefined>>]

Call(op) == [NoCall EXCEPT !.op = op]

-----------------------------------------------------------------------------
(* Initial state: the class is loaded, no static field has been assigned *)

Init ==
    /\ strictMode \in BOOLEAN
    /\ _errors = Undefined
    /\ _warnings = Undefined
    /\ _startTime = Undefined
    /\ _loggingLevel = Undefined
    /\ now = 0
    /\ out = <<>>
    /\ thrown = "none"
    /\ lastCall = NoCall
    /\ errorCalls = 0
    /\ warnCalls = 0

-----------------------------------------------------------------------------
(* The methods of Logger *)

\* the five lines of the banner: the year of the Copyright line is that of
\* `new Date`, a clock read of its own; the Started line prints _startTime
Banner(productName, productVersion, start, yearAt) ==
    << consoleInfo(Text("product", -1, NoToken, productName, 0, productVersion)),
       consoleInfo(Text("Copyright", yearAt, NoToken, "", 0, "")),
       consoleInfo(Plain("")),
       consoleInfo(Text("Started application at", start, NoToken, "", 0, "")),
       consoleInfo(Plain("")) >>

\* variant: a later init keeps the counters it finds
init_keepsCounters(loggingLevel, productName, productVersion, later) ==
    /\ _errors' = IF _errors.t = "number" THEN _errors ELSE Num(0)
    /\ _warnings' = IF _warnings.t = "number" THEN _warnings ELSE Num(0)
    /\ _startTime' = Num(now)
    /\ _loggingLevel' = Num(LevelOfArgument(loggingLevel))
    /\ out' = Banner(productName, productVersion, now, later)
    /\ thrown' = "none"
    /\ lastCall' = [Call("init") EXCEPT !.level = loggingLevel, !.at = now,
                                        !.prior = <<_errors, _warnings, _startTime>>]
    /\ now' = later
    /\ errorCalls' = 0
    /\ warnCalls' = 0
    /\ UNCHANGED strictMode

\* static init (loggingLevel, productName, productVersion).  _startTime is
\* Date.now () as the call finds it; the Copyright line is taken from a
\* second read, `later`, at which the call leaves the clock.
init(loggingLevel, productName, productVersion, later) ==
    /\ _errors' = Num(0)
    /\ _warnings' = Num(0)
    /\ _startTime' = Num(now)
    /\ _loggingLevel' = Num(LevelOfArgument(loggingLevel))
    /\ out' = Banner(productName, productVersion, now, later)
    /\ thrown' = "none"
    /\ lastCall' = [Call("init") EXCEPT !.level = loggingLevel, !.at = now,
                                        !.prior = <<_errors, _warnings, _startTime>>]
    /\ now' = later
    /\ errorCalls' = 0
    /\ warnCalls' = 0
    /\ UNCHANGED strictMode

\* static set loggingLevel (loggingLevel)
setLoggingLevel(loggingLevel) ==
    /\ _loggingLevel' = Num(loggingLevel)
    /\ out' = <<>>
    /\ thrown' = "none"
    /\ lastCall' = [Call("set") EXCEPT !.level = Num(loggingLevel)]
    /\ UNCHANGED <<strictMode, _errors, _warnings, _startTime, now,
                   errorCalls, warnCalls>>

\* static info (message, ip = null, username = null), called with the frames
\* `callers` above it
info(message, ip, username, callers) ==
    /\ IF GreaterEq(_loggingLevel, INFO)
       THEN IF ip = NoArg
            THEN IF CallSiteThrows(LoggerFrame(172), callers)
                 THEN out' = <<>> /\ thrown' = "TypeError"
                 ELSE /\ out' = << consoleInfo(MessageText("INFO",
                                     CallSiteToken(LoggerFrame(172), callers), message)) >>
                      /\ thrown' = "none"
            ELSE /\ out' = << consoleInfo(MessageText("INFO",
                                IdentityToken(username, ip), message)) >>
                 /\ thrown' = "none"
       ELSE out' = <<>> /\ thrown' = "none"
    /\ lastCall' = [Call("info") EXCEPT !.callers = callers, !.ip = ip,
                                        !.username = username]
    /\ UNCHANGED <<strictMode, fields, now, errorCalls, warnCalls>>

\* static error (message): the counter is incremented after the line is
\* written, so not when the template throws
error(message, callers) ==
    /\ errorCalls + warnCalls < MaxCalls
    /\ IF CallSiteThrows(LoggerFrame(188), callers)
       THEN /\ out' = <<>>
            /\ thrown' = "TypeError"
            /\ _errors' = _errors
       ELSE /\ out' = << consoleError(MessageText("ERROR",
                           CallSiteToken(LoggerFrame(188), callers), message)) >>
            /\ thrown' = "none"
            /\ _errors' = PostIncrement(_errors)
    /\ lastCall' = [Call("error") EXCEPT !.callers = callers]
    /\ errorCalls' = errorCalls + 1
    /\ UNCHANGED <<strictMode, _warnings, _startTime, _loggingLevel, now, warnCalls>>

\* static warn (message): the counter is incremented after the gated line,
\* so not when the template throws
warn(message, callers) ==
    /\ errorCalls + warnCalls < MaxCalls
    /\ IF GreaterEq(_loggingLevel, WARN)
       THEN IF CallSiteThrows(LoggerFrame(201), callers)
            THEN /\ out' = <<>>
                 /\ thrown' = "TypeError"
                 /\ _warnings' = _warnings
            ELSE /\ out' = << consoleWarn(MessageText("WARN",
                                CallSiteToken(LoggerFrame(201), callers), message)) >>
                 /\ thrown' = "none"
                 /\ _warnings' = PostIncrement(_warnings)
       ELSE /\ out' = <<>>
            /\ thrown' = "none"
            /\ _warnings' = PostIncrement(_warnings)
    /\ lastCall' = [Call("warn") EXCEPT !.callers = callers]
    /\ warnCalls' = warnCalls + 1
    /\ UNCHANGED <<strictMode, _errors, _startTime, _loggingLevel, now, errorCalls>>

\* static debug (message)
debug(message, callers) ==
    /\ IF GreaterEq(_loggingLevel, DEBUG)
       THEN IF CallSiteThrows(LoggerFrame(217), callers)
            THEN out' = <<>> /\ thrown' = "TypeError"
            ELSE /\ out' = << consoleDebug(MessageText("DEBUG",
                                CallSiteToken(LoggerFrame(217), callers), message)) >>
                 /\ thrown' = "none"
       ELSE out' = <<>> /\ thrown' = "none"
    /\ lastCall' = [Call("debug") EXCEPT !.callers = callers]
    /\ UNCHANGED <<strictMode, fields, now, errorCalls, warnCalls>>

\* static verbose (message)
verbose(message, callers) ==
    /\ IF GreaterEq(_loggingLevel, VERBOSE)
       THEN IF CallSiteThrows(LoggerFrame(230), callers)
            THEN out' = <<>> /\ thrown' = "TypeError"
            ELSE /\ out' = << consoleDebug(MessageText("VERBOSE",
                                CallSiteToken(LoggerFrame(230), callers), message)) >>
                 /\ thrown' = "none"
       ELSE out' = <<>> /\ thrown' = "none"
    /\ lastCall' = [Call("verbose") EXCEPT !.callers = callers]
    /\ UNCHANGED <<strictMode, fields, now, errorCalls, warnCalls>>

\* the first three lines of the report, written before _startTime is read
ReportHead(code) ==
    << consoleInfo(Plain("")),
       consoleInfo(Text("Application exited with code", -1, NoToken, "", code, "")),
       consoleInfo(Plain("")) >>

\* Math.round (Math.abs (now - start) / 36e5)
Uptime(end, start) == MathRoundDiv(MathAbs(end - start), HourMs)

\* the six lines of the report written from _startTime on; Date.now () is
\* read once for the end time and once more for the uptime
ReportTail(start, ended, uptimeAt, warnings, errors) ==
    << consoleInfo(Text("Application Started:", start, NoToken, "", 0, "")),
       consoleInfo(Text("Application ended:", ended, NoToken, "", 0, "")),
       consoleInfo(Text("Application uptime:", -1, NoToken, "",
                        Uptime(uptimeAt, start), "Hours")),
       consoleInfo(Text("Total Warnings:", -1, NoToken, "", warnings, "")),
       consoleInfo(Text("Total errors:", -1, NoToken, "", errors, "")),
       consoleInfo(Plain("")) >>

\* variant: the report clears the counters it has printed
uninit_clearsCounters(code, later) ==
    /\ IF _startTime.t = "undefined"
       THEN /\ out' = ReportHead(code)
            /\ thrown' = "TypeError"
            /\ UNCHANGED <<fields, now>>
       ELSE /\ out' = ReportHead(code) \o
                      ReportTail(_startTime.v, now, later, _warnings.v, _errors.v)
            /\ thrown' = "none"
            /\ now' = later
            /\ _errors' = Num(0)
            /\ _warnings' = Num(0)
            /\ UNCHANGED <<_startTime, _loggingLevel>>
    /\ lastCall' = [Call("uninit") EXCEPT !.code = code]
    /\ UNCHANGED <<strictMode, errorCalls, warnCalls>>

\* static uninit (code).  this._startTime.toISOString () is a property read
\* of undefined, a TypeError, when _startTime was never assigned.  Otherwise
\* the end time is Date.now () as the call finds it and the uptime is taken
\* from a second read, `later`, at which the call leaves the clock.
uninit(code, later) ==
    /\ IF _startTime.t = "undefined"
       THEN /\ out' = ReportHead(code)
            /\ thrown' = "TypeError"
            /\ now' = now
       ELSE /\ out' = ReportHead(code) \o
                      ReportTail(_startTime.v, now, later, _warnings.v, _errors.v)
            /\ thrown' = "none"
            /\ now' = later
    /\ lastCall' = [Call("uninit") EXCEPT !.code = code]
    /\ UNCHANGED <<strictMode, fields, errorCalls, warnCalls>>

\* Time passes between two calls: Date.now () returns another value (the
\* system clock may also be set back).  The step calls nothing and writes
\* nothing.
Tick(t) ==
    /\ t # now
    /\ now' = t
    /\ out' = <<>>
    /\ thrown' = "none"
    /\ lastCall' = Call("tick")
    /\ UNCHANGED <<strictMode, fields, errorCalls, warnCalls>>

-----------------------------------------------------------------------------
(* Specifications *)

\* one call of a method, or time passing, with the arguments drawn from the
\* given sets
Steps(levels, callerSets, ips, usernames, codes, clock) ==
    \/ \E a \in levels, n \in ProductNames, v \in ProductVersions, t \in clock :
          init(a, n, v, t)
    \/ \E l \in LoggingLevel : setLoggingLevel(l)
    \/ \E m \in Messages, ip \in ips, u \in usernames, c \in callerSets :
          info(m, ip, u, c)
    \/ \E m \in Messages, c \in callerSets : error(m, c)
    \/ \E m \in Messages, c \in callerSets : warn(m, c)
    \/ \E m \in Messages, c \in callerSets : debug(m, c)
    \/ \E m \in Messages, c \in callerSets : verbose(m, c)
    \/ \E code \in codes, t \in clock : uninit(code, t)
    \/ \E t \in clock : Tick(t)

\* every method with every kind of caller, in either build
Next ==
    Steps(SomeLevelArgs, CallerArgs, IpArgs, UsernameArgs, ExitCodes, SomeClockValues)

Spec == Init /\ [][Next]_vars

\* the clock over all its values, with an ordinary caller
NextClock == Steps({Undefined}, OneCaller, {NoArg}, {NoArg}, {0}, ClockValues)

SpecClock == Init /\ [][NextClock]_vars

\* init with every string, followed by the calls that show the level
NextLevels ==
    \/ \E a \in AllLevelArgs, n \in ProductNames, v \in ProductVersions,
          t \in SomeClockValues : init(a, n, v, t)
    \/ \E l \in LoggingLevel : setLoggingLevel(l)
    \/ \E m \in Messages, c \in OneCaller : debug(m, c)
    \/ \E m \in Messages, c \in OneCaller : verbose(m, c)

SpecLevels == Init /\ [][NextLevels]_vars

-----------------------------------------------------------------------------
(* Vocabulary of the properties *)

Emissions == {"info", "error", "warn", "debug", "verbose"}

\* the severity a gated method logs at
SeverityOf(op) ==
    CASE op = "info" -> 2
      [] op = "warn" -> 1
      [] op = "debug" -> 3
      [] op = "verbose" -> 4

TagOf(op) ==
    CASE op = "info" -> "INFO"
      [] op = "error" -> "ERROR"
      [] op = "warn" -> "WARN"
      [] op = "debug" -> "DEBUG"
      [] op = "verbose" -> "VERBOSE"

LevelNumber(name) ==
    CASE name = <<"E","R","R","O","R">> -> 0
      [] name = <<"W","A","R","N">> -> 1
      [] name = <<"I","N","F","O">> -> 2
      [] name = <<"D","E","B","U","G">> -> 3
      [] name = <<"V","E","R","B","O","S","E">> -> 4

\* init has been called at some time
Initialized == _startTime.t = "number"

\* the last step wrote exactly one line, a message line with this tag
WroteMessage(tag) == Len(out) = 1 /\ out[1].text.tag = tag

\* Unicode case folding of one character: a capital letter folds to its
\* small letter, the long s to s, the sharp s to ss, a ligature to its
\* letters, an accented capital to the small one; the dotless i folds to
\* itself
CaseFoldTable ==
    [ c \in Alphabet |->
        IF \E k \in 1..26 : UpperCase[k] = c
        THEN << LowerCase[CHOOSE k \in 1..26 : UpperCase[k] = c] >>
        ELSE CASE c = "U+017F" -> <<"s">>
               [] c = "U+00DF" -> <<"s", "s">>
               [] c = "U+FB00" -> <<"f", "f">>
               [] c = "U+FB01" -> <<"f", "i">>
               [] c = "U+FB02" -> <<"f", "l">>
               [] c = "U+FB03" -> <<"f", "f", "i">>
               [] c = "U+FB04" -> <<"f", "f", "l">>
               [] c = "U+FB05" -> <<"s", "t">>
               [] c = "U+FB06" -> <<"s", "t">>
               [] c = "U+00C0" -> <<"U+00E0">>
               [] c = "U+00C8" -> <<"U+00E8">>
               [] c = "U+00C9" -> <<"U+00E9">>
               [] c = "U+0178" -> <<"U+00FF">>
               [] c = "U+00B5" -> <<"U+03BC">>
               [] c = "U+039C" -> <<"U+03BC">>
               [] c = "U+01F0" -> <<"j", "U+030C">>
               [] OTHER -> <<c>> ]

CaseFoldChar(c) == CaseFoldTable[c]

RECURSIVE CaseFold(_)
CaseFold(chars) ==
    IF Len(chars) = 0 THEN <<>>
    ELSE CaseFoldChar(chars[1]) \o
         CaseFold([i \in 1..(Len(chars) - 1) |-> chars[i + 1]])

\* two strings are equal when compared case-insensitively
EqualIgnoringCase(x, y) == CaseFold(x) = CaseFold(y)

-----------------------------------------------------------------------------
(* Properties *)

\* C1: with a threshold T set by init or by the loggingLevel setter, a call
\* of info, warn, debug or verbose with severity S writes its message line
\* if and only if T >= S, and a call of error writes its line whatever T is.
C1_Gating ==
    _loggingLevel.t = "number" =>
        /\ lastCall.op \in {"info", "warn", "debug", "verbose"} =>
              /\ _loggingLevel.v >= SeverityOf(lastCall.op)
                    <=> WroteMessage(TagOf(lastCall.op))
              /\ _loggingLevel.v < SeverityOf(lastCall.op) <=> out = <<>>
        /\ lastCall.op = "error" => WroteMessage("ERROR")

\* C2: after an init, errorCount is the number of error calls and
\* warningCount the number of warn calls made since the most recent init,
\* whatever the threshold was and whether or not the warn line was printed;
\* uninit reports these totals.
C2_Counts ==
    Initialized =>
        /\ _errors = Num(errorCalls)
        /\ _warnings = Num(warnCalls)
        /\ lastCall.op = "uninit" =>
              /\ out[7].text.tag = "Total Warnings:" /\ out[7].text.num = warnCalls
              /\ out[8].text.tag = "Total errors:" /\ out[8].text.num = errorCalls

\* C3: init called with a Severity value L passed as the enum value leaves
\* the threshold equal to L, for each of the five values.
C3_EnumInit ==
    (lastCall.op = "init" /\ lastCall.level.t = "number") =>
        _loggingLevel = lastCall.level

\* C4: init called with a string sets the threshold to the Severity whose
\* name equals the string compared case-insensitively, and to INFO for every
\* other string; it does not throw and does not leave the threshold unset.
C4_StringInit ==
    (lastCall.op = "init" /\ lastCall.level.t = "string") =>
        /\ thrown = "none"
        /\ _loggingLevel.t = "number"
        /\ \A n \in LevelNames :
              EqualIgnoringCase(lastCall.level.s, n) =>
                  _loggingLevel.v = LevelNumber(n)
        /\ (\A n \in LevelNames : ~EqualIgnoringCase(lastCall.level.s, n)) =>
              _loggingLevel.v = 2

\* C4 witness: init ("vErBoSe") has set the threshold VERBOSE
C4_Witness ==
    /\ lastCall.op = "init"
    /\ lastCall.level = Str(<<"v","E","r","B","o","S","e">>)
    /\ _loggingLevel = Num(4)

\* C5: every call of init, also one made after error and warn calls, leaves
\* errorCount = 0 and warningCount = 0 and startTime at the time of the call
\* (the value of the clock when init was called, which the banner prints).
C5_InitResets ==
    lastCall.op = "init" =>
        /\ _errors = Num(0)
        /\ _warnings = Num(0)
        /\ _startTime = Num(lastCall.at)
        /\ out[4].text.tag = "Started application at"
        /\ out[4].text.time = lastCall.at

\* C5 witness: a second init, called at another time than the first and
\* after one error and one warn call, has reset the counters
C5_Witness ==
    /\ lastCall.op = "init"
    /\ lastCall.prior[1] = Num(1)
    /\ lastCall.prior[2] = Num(1)
    /\ lastCall.prior[3].t = "number"
    /\ lastCall.prior[3] # _startTime
    /\ _errors = Num(0)
    /\ _warnings = Num(0)

\* C6: a call of an emission function or of uninit made when init has never
\* been called does not raise a fault.
C6_NoFaultBeforeInit ==
    (~Initialized /\ lastCall.op \in Emissions \cup {"uninit"}) =>
        thrown = "none"

\* C7: after an init, a step that is not an init never decreases errorCount
\* or warningCount and never changes startTime, and uninit changes none of
\* threshold, counters and startTime.
C7_Frame ==
    [][ (Initialized /\ lastCall'.op # "init") =>
            /\ _errors'.t = "number" /\ _errors'.v >= _errors.v
            /\ _warnings'.t = "number" /\ _warnings'.v >= _warnings.v
            /\ _startTime' = _startTime
            /\ lastCall'.op = "uninit" =>
                  /\ _loggingLevel' = _loggingLevel
                  /\ _errors' = _errors
                  /\ _warnings' = _warnings ]_vars

\* C7 witness: uninit has reported after an error and a warn call that were
\* counted, at a later time than the init
C7_Witness ==
    /\ Initialized
    /\ lastCall.op = "uninit"
    /\ thrown = "none"
    /\ _errors = Num(1)
    /\ _warnings = Num(1)
    /\ now # _startTime.v

\* C8: with the threshold at least INFO, info called with an ip renders
\* <username>@<ip>, with "Unauthenticated" as the user when username is
\* absent; info called without an ip renders <line>@<basename> of its
\* caller; info changes neither errorCount nor warningCount.
C8_InfoRenders ==
    [][ (lastCall'.op = "info" /\ _loggingLevel.t = "number"
                                /\ _loggingLevel.v >= 2) =>
            /\ Len(out') = 1
            /\ out'[1].text.tag = "INFO"
            /\ lastCall'.ip # NoArg =>
                  /\ out'[1].text.token.mode = "identity"
                  /\ out'[1].text.token.ip = lastCall'.ip[1]
                  /\ out'[1].text.token.user =
                        IF lastCall'.username = NoArg THEN "Unauthenticated"
                        ELSE lastCall'.username[1]
            /\ lastCall'.ip = NoArg =>
                  /\ out'[1].text.token.mode = "callsite"
                  /\ Len(lastCall'.callers) > 0 =>
                        out'[1].text.token.line = lastCall'.callers[1].line
            /\ _errors' = _errors
            /\ _warnings' = _warnings ]_vars

\* the uptime line of the report
UptimeReported == out[6].text.num

\* |now - startTime| in milliseconds, now being the time uninit read last
Elapsed == IF now >= _startTime.v THEN now - _startTime.v ELSE _startTime.v - now

\* C9: uninit reports the hours H nearest to |now - startTime| / 3,600,000,
\* a half rounded up: H - 1/2 <= elapsed / 3,600,000 < H + 1/2; exactly two
\* hours give 2 and ninety minutes give 2.
C9_Uptime ==
    (lastCall.op = "uninit" /\ thrown = "none") =>
        /\ out[6].text.tag = "Application uptime:"
        /\ (2 * UptimeReported - 1) * 3600000 <= 2 * Elapsed
        /\ 2 * Elapsed < (2 * UptimeReported + 1) * 3600000
        /\ Elapsed = 7200000 => UptimeReported = 2
        /\ Elapsed = 5400000 => UptimeReported = 2

\* C9 witness: uninit called ninety minutes after init reported 2 hours
C9_Witness ==
    /\ lastCall.op = "uninit"
    /\ thrown = "none"
    /\ Elapsed = 5400000
    /\ UptimeReported = 2

\* C10: every line of init, info and uninit goes to the informational sink,
\* every line of error, warn, debug and verbose to an error or diagnostic
\* sink and never to the informational one.
C10_Sinks ==
    \A i \in 1..Len(out) :
        /\ lastCall.op \in {"init", "info", "uninit"} =>
              out[i].sink = "console.info"
        /\ lastCall.op \in {"error", "warn", "debug", "verbose"} =>
              out[i].sink \in {"console.error", "console.warn", "console.debug"}

\* C10 witness: verbose has written its line with console.debug
C10_Witness ==
    /\ lastCall.op = "verbose"
    /\ Len(out) = 1
    /\ out[1].sink = "console.debug"

====
